---- MODULE Spec2Model ----
(***************************************************************************)
(* Model of the CSV upload / catalog pipeline of src/app/main.py:          *)
(* the upload handler (blob write, parse, catalog insert over the shared   *)
(* SQLite connection, best-effort S3 backup), the read handlers (file      *)
(* view, download, listing) and the environment around them (external      *)
(* deletion of blobs, I/O faults, process crash).                          *)
(***************************************************************************)
EXTENDS Integers, Sequences, FiniteSets, TLC

\* ------------------------------------------------------------------ bounds
\* number of upload requests
MaxReqs == 2
\* number of injected environment faults (I/O errors, crashes, external deletes)
MaxFaults == 1
\* calendar days the wall clock can show: 0..MaxDay
MaxDay == 1
\* sub-second part (microseconds) the wall clock can show: 0..MaxMicro
MaxMicro == 1

\* length of the byte strings the parser is run on: 0..MaxLen
MaxLen == 4

Reqs == 1..MaxReqs
\* identifiers uuid4 can return; 0 stands for "no id yet"
Ids == 1..MaxReqs
NoId == 0

\* ------------------------------------------------------------- characters
\* A text (or byte string) is a sequence of one-character strings.
LF == "LF"
CR == "CR"
QUOTE == "Q"
COMMA == ","
PIPE == "|"
\* a byte that is not valid UTF-8 (0xFF)
BADBYTE == "xFF"
\* the end-of-line mark csv.reader feeds itself after each line
EOL == "EOL"

\* The uploaded byte strings the model draws from.
CsvPlain == <<"a", COMMA, "b", LF, "1", LF>>
CsvPipeHeader == <<"a", PIPE, "b", LF>>
CsvNotUtf8 == <<BADBYTE>>
Uploads == {CsvPlain, CsvPipeHeader, CsvNotUtf8}

\* the bytes of the strings the parser is run on
Alphabet == {"a", COMMA, LF, QUOTE}

\* every byte string of at most MaxLen bytes over the alphabet
ByteStrings == UNION {[1..n -> Alphabet] : n \in 0..MaxLen}

\* file names clients send
FileNames == {"x.csv"}

\* ----------------------------------------------------------------- parser
\* bytes.decode('utf-8'): fails on a byte sequence that is not UTF-8
ValidUtf8(bytes) == \A i \in 1..Len(bytes) : bytes[i] # BADBYTE

RECURSIVE SplitLinesFrom(_, _, _, _)
SplitLinesFrom(s, i, cur, acc) ==
    IF i > Len(s) THEN (IF cur = <<>> THEN acc ELSE Append(acc, cur))
    ELSE IF s[i] = LF THEN SplitLinesFrom(s, i + 1, <<>>, Append(acc, cur))
    ELSE IF s[i] = CR THEN
        SplitLinesFrom(s, IF i < Len(s) /\ s[i + 1] = LF THEN i + 2 ELSE i + 1,
                       <<>>, Append(acc, cur))
    ELSE SplitLinesFrom(s, i + 1, Append(cur, s[i]), acc)

\* str.splitlines(): lines without their line ends, no empty last line
splitlines(s) == SplitLinesFrom(s, 1, <<>>, <<>>)

\* csv.reader's state: st the parser state, fld the field being read,
\* flds the fields of the current record, rows the records returned so far
CsvInit == [st |-> "START_RECORD", fld |-> <<>>, flds |-> <<>>, rows |-> <<>>]

SaveField(m) == [m EXCEPT !.flds = Append(@, m.fld), !.fld = <<>>]

AfterNewline(c) == IF c = EOL THEN "START_RECORD" ELSE "EAT_CRNL"

StartField(m, c) ==
    IF c \in {LF, CR, EOL} THEN [SaveField(m) EXCEPT !.st = AfterNewline(c)]
    ELSE IF c = QUOTE THEN [m EXCEPT !.st = "IN_QUOTED_FIELD"]
    ELSE IF c = COMMA THEN [SaveField(m) EXCEPT !.st = "START_FIELD"]
    ELSE [m EXCEPT !.fld = Append(@, c), !.st = "IN_FIELD"]

\* one character through the reader's state machine
ProcessChar(m, c) ==
    CASE m.st = "START_RECORD" ->
            IF c = EOL THEN m
            ELSE IF c \in {LF, CR} THEN [m EXCEPT !.st = "EAT_CRNL"]
            ELSE StartField(m, c)
      [] m.st = "START_FIELD" -> StartField(m, c)
      [] m.st = "IN_FIELD" ->
            IF c \in {LF, CR, EOL} THEN [SaveField(m) EXCEPT !.st = AfterNewline(c)]
            ELSE IF c = COMMA THEN [SaveField(m) EXCEPT !.st = "START_FIELD"]
            ELSE [m EXCEPT !.fld = Append(@, c)]
      [] m.st = "IN_QUOTED_FIELD" ->
            IF c = EOL THEN m
            ELSE IF c = QUOTE THEN [m EXCEPT !.st = "QUOTE_IN_QUOTED_FIELD"]
            ELSE [m EXCEPT !.fld = Append(@, c)]
      [] m.st = "QUOTE_IN_QUOTED_FIELD" ->
            IF c = QUOTE THEN [m EXCEPT !.fld = Append(@, c), !.st = "IN_QUOTED_FIELD"]
            ELSE IF c = COMMA THEN [SaveField(m) EXCEPT !.st = "START_FIELD"]
            ELSE IF c \in {LF, CR, EOL} THEN [SaveField(m) EXCEPT !.st = AfterNewline(c)]
            ELSE [m EXCEPT !.fld = Append(@, c), !.st = "IN_FIELD"]
      [] m.st = "EAT_CRNL" ->
            IF c \in {LF, CR} THEN m
            ELSE IF c = EOL THEN [m EXCEPT !.st = "START_RECORD"]
            ELSE [m EXCEPT !.st = "ERROR"]
      [] OTHER -> m

\* a record is returned when the end of a line leaves the reader at START_RECORD
Feed(m, c) ==
    LET n == ProcessChar(m, c)
    IN  IF c = EOL /\ n.st = "START_RECORD"
        THEN [n EXCEPT !.rows = Append(@, n.flds), !.flds = <<>>]
        ELSE n

RECURSIVE FeedLine(_, _, _)
FeedLine(m, line, i) ==
    IF i > Len(line) THEN Feed(m, EOL) ELSE FeedLine(Feed(m, line[i]), line, i + 1)

RECURSIVE FeedLines(_, _, _)
FeedLines(m, lines, k) ==
    IF k > Len(lines) THEN m ELSE FeedLines(FeedLine(m, lines[k], 1), lines, k + 1)

\* list(csv.reader(lines)): ok is FALSE when csv.Error is raised; a quoted
\* field left open at the end of the input is returned as it stands
csv_reader(lines) ==
    LET m == FeedLines(CsvInit, lines, 1)
    IN  IF m.st = "ERROR" THEN [ok |-> FALSE, rows |-> <<>>]
        ELSE IF m.st = "IN_QUOTED_FIELD"
        THEN [ok |-> TRUE, rows |-> Append(m.rows, Append(m.flds, m.fld))]
        ELSE [ok |-> TRUE, rows |-> m.rows]

\* a slice that keeps the first row
Tail1All(rows) == rows

\* rows[1:]
Tail1(rows) == IF rows = <<>> THEN <<>> ELSE Tail(rows)

NoParse == [ok |-> FALSE, headers |-> <<>>, data_rows |-> <<>>]

\* headers = rows[0] if rows else []; data_rows = rows[1:]
HeaderAndRows(rows) ==
    [ok |-> TRUE, headers |-> IF rows = <<>> THEN <<>> ELSE rows[1],
     data_rows |-> Tail1(rows)]

\* step 4 of upload: decode, split, parse; ok is FALSE when decoding or
\* parsing raises
ParseUpload(bytes) ==
    IF ~ValidUtf8(bytes) THEN NoParse
    ELSE LET res == csv_reader(splitlines(bytes))
         IN  IF res.ok THEN HeaderAndRows(res.rows) ELSE NoParse

\* ------------------------------------------------- catalog text encodings
RECURSIVE JoinFrom(_, _)
JoinFrom(fields, k) ==
    IF k > Len(fields) THEN <<>>
    ELSE IF k = Len(fields) THEN fields[k]
    ELSE fields[k] \o <<PIPE>> \o JoinFrom(fields, k + 1)

\* "|".join(headers)
JoinHeaders(headers) == JoinFrom(headers, 1)

RECURSIVE SplitFrom(_, _, _, _)
SplitFrom(text, i, cur, acc) ==
    IF i > Len(text) THEN Append(acc, cur)
    ELSE IF text[i] = PIPE THEN SplitFrom(text, i + 1, <<>>, Append(acc, cur))
    ELSE SplitFrom(text, i + 1, Append(cur, text[i]), acc)

\* row[4].split('|') if row[4] else []
SplitHeaders(text) == IF text = <<>> THEN <<>> ELSE SplitFrom(text, 1, <<>>, <<>>)

\* A datetime is [day, us]: the calendar date and the sub-second part.
Times == [day : 0..MaxDay, us : 0..MaxMicro]

\* datetime.isoformat(): fixed-width fields, the fraction left out when it is 0
isoformat(dt) == IF dt.us = 0 THEN <<dt.day>> ELSE <<dt.day, dt.us>>

\* datetime.fromisoformat()
fromisoformat(text) == [day |-> text[1], us |-> IF Len(text) = 1 THEN 0 ELSE text[2]]

\* strftime('%Y/%m/%d')
DatePrefix(dt) == dt.day

RECURSIVE TextLessFrom(_, _, _)
TextLessFrom(a, b, i) ==
    IF i > Len(a) THEN i <= Len(b)
    ELSE IF i > Len(b) THEN FALSE
    ELSE IF a[i] # b[i] THEN a[i] < b[i]
    ELSE TextLessFrom(a, b, i + 1)

\* SQLite's comparison of two TEXT values (memcmp, the shorter first on a tie)
TextLess(a, b) == TextLessFrom(a, b, 1)

\* a storage path that does not depend on the identifier
LocalPathShared(id) == [dir |-> "data", name |-> 1]

\* LOCAL_STORAGE / f"{file_id}.csv"
LocalPath(id) == [dir |-> "data", name |-> id]

Paths == {LocalPath(i) : i \in Ids}
\* what the disk holds at a path
NoFile == [exists |-> FALSE, bytes |-> <<>>]
FileWith(bytes) == [exists |-> TRUE, bytes |-> bytes]

\* the tuple db_add binds to the INSERT statement
RowOf(pf) ==
    [id |-> pf.id, path |-> pf.path, original_name |-> pf.original_name,
     rows |-> pf.rows, headers |-> JoinHeaders(pf.headers),
     uploaded_at |-> isoformat(pf.uploaded_at)]

\* the ProcessedFile db_get and db_list build from a row
FileOf(row) ==
    [id |-> row.id, path |-> row.path, original_name |-> row.original_name,
     rows |-> row.rows, headers |-> SplitHeaders(row.headers),
     uploaded_at |-> fromisoformat(row.uploaded_at)]

\* ------------------------------------------------------------------ state
VARIABLES
    pc,          \* pc[r]: where upload request r stands
    req,         \* req[r]: the locals of upload request r
    running,     \* the request whose handler the event loop is running, 0 if none
    issued,      \* the identifiers uuid4 has returned
    disk,        \* disk[p]: the file at path p of LOCAL_STORAGE
    committed,   \* rows of processed_files committed to the database file
    pending,     \* rows inserted in the open transaction of the shared connection
    s3,          \* the objects in the bucket
    env,         \* the S3 client and the AWS credentials of the process
    faults,      \* environment faults injected so far
    extDeleted,  \* paths deleted by an external actor
    resp         \* the response of the last read request

vars == <<pc, req, running, issued, disk, committed, pending, s3, env, faults,
          extDeleted, resp>>

\* os.getenv("AWS_ACCESS_KEY_ID") and os.getenv("AWS_SECRET_ACCESS_KEY")
has_aws_credentials(e) == e.key /\ e.secret

Envs == [client : BOOLEAN, key : BOOLEAN, secret : BOOLEAN]

NoTime == [day |-> 0, us |-> 0]

NoReq ==
    [contents |-> <<>>, filename |-> "", file_id |-> NoId, wrote |-> FALSE,
     parsed |-> NoParse,
     uploaded_at |-> NoTime, failedAt |-> "", s3key |-> <<>>, s3calls |-> 0,
     s3ret |-> FALSE]

NoResp == [op |-> "none", id |-> NoId, status |-> 0, body |-> <<>>]

\* The SQLite file at DB_PATH: whether it holds the table processed_files,
\* and the committed rows of the table.
NoStore == [schema |-> FALSE, rows |-> <<>>]
StoreWith(rows) == [schema |-> TRUE, rows |-> rows]

\* a startup that creates the table anew
StartupRecreates(store) == StoreWith(<<>>)

\* sqlite3.connect(DB_PATH) and CREATE TABLE IF NOT EXISTS processed_files:
\* a table found in the file is kept as it is, a missing one is created empty
StartupSchema(store) == IF store.schema THEN store ELSE StoreWith(<<>>)

\* LOCAL_STORAGE.mkdir(parents=True, exist_ok=True): an existing directory is
\* kept with its files, a missing one is created empty
StartupStorage(exists, files) == IF exists THEN files ELSE [p \in Paths |-> NoFile]

Init ==
    /\ pc = [r \in Reqs |-> "idle"]
    /\ req = [r \in Reqs |-> NoReq]
    /\ running = 0
    /\ issued = {}
    /\ disk = StartupStorage(FALSE, <<>>)
    /\ committed = StartupSchema(NoStore).rows
    /\ pending = <<>>
    /\ s3 = {}
    /\ env \in Envs
    /\ faults = 0
    /\ extDeleted = {}
    /\ resp = NoResp

\* what a statement on the shared connection sees: the committed rows and
\* the rows of its own open transaction, in rowid order
Visible == committed \o pending

CanFault == faults < MaxFaults

\* the last response has left the process
Sent == resp.op = "none"

\* ---------------------------------------------------------------- upload
\* contents = await file.read(): the request is received; requests are
\* numbered in the order they arrive
Receive(r) ==
    /\ Sent
    /\ pc[r] = "idle"
    /\ \A q \in Reqs : q < r => pc[q] # "idle"
    /\ \E c \in Uploads, n \in FileNames :
          req' = [req EXCEPT ![r].contents = c, ![r].filename = n]
    /\ pc' = [pc EXCEPT ![r] = "received"]
    /\ UNCHANGED <<running, issued, disk, committed, pending, s3, env, faults,
                   extDeleted, resp>>

\* contents = await file.read() for an arbitrary short byte string
ReceiveBytes(r) ==
    /\ Sent
    /\ pc[r] = "idle"
    /\ \E c \in ByteStrings, n \in FileNames :
          req' = [req EXCEPT ![r].contents = c, ![r].filename = n]
    /\ pc' = [pc EXCEPT ![r] = "received"]
    /\ UNCHANGED <<running, issued, disk, committed, pending, s3, env, faults,
                   extDeleted, resp>>

\* str(uuid.uuid4()): an identifier never returned before
uuid4 == CHOOSE i \in Ids \ issued : \A j \in Ids \ issued : i <= j

\* the handler resumes on the event loop and runs to its end without
\* another await: file_id = str(uuid.uuid4())
GenId(r) ==
    /\ Sent
    /\ pc[r] = "received"
    /\ running = 0
    /\ req' = [req EXCEPT ![r].file_id = uuid4]
    /\ issued' = issued \cup {uuid4}
    /\ running' = r
    /\ pc' = [pc EXCEPT ![r] = "id"]
    /\ UNCHANGED <<disk, committed, pending, s3, env, faults, extDeleted, resp>>

\* str(uuid.uuid4()) as the 122 random bits it is: the value may be one that
\* was returned before
GenIdAny(r) ==
    /\ Sent
    /\ pc[r] = "received"
    /\ running = 0
    /\ \E i \in Ids :
          /\ req' = [req EXCEPT ![r].file_id = i]
          /\ issued' = issued \cup {i}
    /\ running' = r
    /\ pc' = [pc EXCEPT ![r] = "id"]
    /\ UNCHANGED <<disk, committed, pending, s3, env, faults, extDeleted, resp>>

\* the request ends with an exception raised at step `at`
Fail(r, at) ==
    /\ pc' = [pc EXCEPT ![r] = "failed"]
    /\ req' = [req EXCEPT ![r].failedAt = at]
    /\ running' = 0

\* an exception of the blob write that is swallowed: the handler goes on
WriteFailedSwallowed(r) ==
    /\ pc' = [pc EXCEPT ![r] = "written"]
    /\ UNCHANGED <<req, running>>

\* an exception of open() or f.write() leaves the handler: the request fails
WriteFailed(r) == Fail(r, "write")

\* open(local_path, 'wb') and f.write(contents); req[r].wrote records that
\* the write completed
WriteBlob(r) ==
    /\ pc[r] = "id"
    /\ running = r
    /\ LET path == LocalPath(req[r].file_id)
           bytes == req[r].contents
       IN  \/ /\ disk' = [disk EXCEPT ![path] = FileWith(bytes)]
              /\ req' = [req EXCEPT ![r].wrote = TRUE]
              /\ pc' = [pc EXCEPT ![r] = "written"]
              /\ UNCHANGED <<running, faults>>
           \/ \* open() raises: nothing is created
              /\ CanFault
              /\ faults' = faults + 1
              /\ WriteFailed(r)
              /\ UNCHANGED disk
           \/ \* write() raises after open() truncated or created the file
              /\ CanFault
              /\ faults' = faults + 1
              /\ WriteFailed(r)
              /\ \E k \in 0..(Len(bytes) - 1) :
                    disk' = [disk EXCEPT ![path] = FileWith(SubSeq(bytes, 1, k))]
    /\ UNCHANGED <<issued, committed, pending, s3, env, extDeleted, resp>>

\* contents.decode('utf-8').splitlines(), csv.reader, headers, data_rows
Parse(r) ==
    /\ pc[r] = "written"
    /\ running = r
    /\ LET res == ParseUpload(req[r].contents)
       IN  IF res.ok
           THEN /\ req' = [req EXCEPT ![r].parsed = res]
                /\ pc' = [pc EXCEPT ![r] = "parsed"]
                /\ UNCHANGED running
           ELSE Fail(r, "parse")
    /\ UNCHANGED <<issued, disk, committed, pending, s3, env, faults, extDeleted, resp>>

\* processed_file = ProcessedFile(..., uploaded_at=datetime.utcnow())
Build(r) ==
    /\ pc[r] = "parsed"
    /\ running = r
    /\ \E now \in Times : req' = [req EXCEPT ![r].uploaded_at = now]
    /\ pc' = [pc EXCEPT ![r] = "built"]
    /\ UNCHANGED <<running, issued, disk, committed, pending, s3, env, faults,
                   extDeleted, resp>>

\* the ProcessedFile of request r
ProcessedFile(r) ==
    [id |-> req[r].file_id, path |-> LocalPath(req[r].file_id),
     original_name |-> req[r].filename, rows |-> Len(req[r].parsed.data_rows),
     headers |-> req[r].parsed.headers, uploaded_at |-> req[r].uploaded_at]

\* a table without the primary key: no INSERT is rejected
DuplicateIdIgnored(id) == FALSE

\* id TEXT PRIMARY KEY: the INSERT is rejected when the id is present
DuplicateId(id) == \E k \in 1..Len(Visible) : Visible[k].id = id

\* a commit that stores the rows of the transaction twice
CommitRowsTwice(rows) == committed \o rows \o rows

\* a commit that replaces the table by the rows of the transaction
CommitRowsOverwrite(rows) == rows

\* conn.commit() succeeded: the open transaction becomes durable
CommitRows(rows) == committed \o rows

\* db_add(processed_file): conn.execute(INSERT ...) then conn.commit()
DbAdd(r) ==
    /\ pc[r] = "built"
    /\ running = r
    /\ LET row == RowOf(ProcessedFile(r))
       IN  \/ \* the INSERT and the commit succeed
              /\ ~DuplicateId(row.id)
              /\ committed' = CommitRows(Append(pending, row))
              /\ pending' = <<>>
              /\ pc' = [pc EXCEPT ![r] = "cataloged"]
              /\ UNCHANGED <<req, running, faults>>
           \/ \* the INSERT raises IntegrityError
              /\ DuplicateId(row.id)
              /\ Fail(r, "insert")
              /\ UNCHANGED <<committed, pending, faults>>
           \/ \* the INSERT raises OperationalError
              /\ CanFault
              /\ faults' = faults + 1
              /\ Fail(r, "insert")
              /\ UNCHANGED <<committed, pending>>
           \/ \* the INSERT succeeds and conn.commit() raises: SQLite either
              \* leaves the transaction open or rolls it back
              /\ ~DuplicateId(row.id)
              /\ CanFault
              /\ faults' = faults + 1
              /\ Fail(r, "commit")
              /\ \/ pending' = Append(pending, row)
                 \/ pending' = <<>>
              /\ UNCHANGED committed
    /\ UNCHANGED <<issued, disk, s3, env, extDeleted, resp>>

\* the key of line 389: uploads/<date_prefix>/<file_id>_<filename>
S3Key(now, id, name) == <<DatePrefix(now), id, name>>

\* a guard that does not look at the secret key
BackupAttemptedKeyOnly(e) == e.client /\ e.key

\* upload_to_s3 attempts the network call only with a client and credentials
BackupAttempted(e) == e.client /\ has_aws_credentials(e)

\* upload_to_s3 returns ret after `calls` calls of s3_client.upload_file
S3Returned(r, key, calls, ret) ==
    /\ req' = [req EXCEPT ![r].s3key = key, ![r].s3calls = calls, ![r].s3ret = ret]
    /\ pc' = [pc EXCEPT ![r] = "backed"]
    /\ UNCHANGED running

\* an exception of upload_file that leaves upload_to_s3 and fails the request
S3Propagated(r, key) ==
    /\ req' = [req EXCEPT ![r].s3key = key, ![r].s3calls = 1, ![r].failedAt = "backup"]
    /\ pc' = [pc EXCEPT ![r] = "failed"]
    /\ running' = 0

\* except (NoCredentialsError, PartialCredentialsError) / except Exception:
\* the error is logged and upload_to_s3 returns False
S3Caught(r, key) == S3Returned(r, key, 1, FALSE)

\* date_prefix = datetime.utcnow()...; upload_to_s3(local_path, s3_key)
Backup(r) ==
    /\ pc[r] = "cataloged"
    /\ running = r
    /\ \E now \in Times :
         LET key == S3Key(now, req[r].file_id, req[r].filename)
             file == disk[LocalPath(req[r].file_id)]
         IN  IF ~BackupAttempted(env)
             THEN \* "Skipping S3 upload (no credentials)"
                  /\ S3Returned(r, <<>>, 0, FALSE)
                  /\ UNCHANGED <<s3, faults>>
             ELSE \/ \* upload_file succeeds
                     /\ file.exists
                     /\ s3' = s3 \cup {[key |-> key, bytes |-> file.bytes]}
                     /\ S3Returned(r, key, 1, TRUE)
                     /\ UNCHANGED faults
                  \/ \* upload_file raises: the local file is gone
                     /\ ~file.exists
                     /\ S3Caught(r, key)
                     /\ UNCHANGED <<s3, faults>>
                  \/ \* upload_file raises: credentials, network, permission
                     /\ CanFault
                     /\ faults' = faults + 1
                     /\ S3Caught(r, key)
                     /\ UNCHANGED s3
    /\ UNCHANGED <<issued, disk, committed, pending, env, extDeleted, resp>>

\* return FILE_TEMPLATE.render(...): the request completes with 200
Finish(r) ==
    /\ pc[r] = "backed"
    /\ running = r
    /\ pc' = [pc EXCEPT ![r] = "complete"]
    /\ running' = 0
    /\ UNCHANGED <<req, issued, disk, committed, pending, s3, env, faults,
                   extDeleted, resp>>

\* ------------------------------------------------------------------ reads
\* identifiers a client can ask for: the issued ones and one never issued
QueryIds == issued \cup {NoId}

NoFileRecord ==
    [id |-> NoId, path |-> LocalPath(NoId), original_name |-> "", rows |-> 0,
     headers |-> <<>>, uploaded_at |-> NoTime]

\* db_get(file_id): found is FALSE when fetchone() returns no row
db_get(id) ==
    IF \E k \in 1..Len(Visible) : Visible[k].id = id
    THEN [found |-> TRUE,
          pf |-> FileOf(Visible[CHOOSE k \in 1..Len(Visible) : Visible[k].id = id])]
    ELSE [found |-> FALSE, pf |-> NoFileRecord]

\* pf.path.exists()
PathExists(path) == path \in Paths /\ disk[path].exists

RECURSIVE ReadLinesFrom(_, _, _, _)
ReadLinesFrom(s, i, cur, acc) ==
    IF i > Len(s) THEN (IF cur = <<>> THEN acc ELSE Append(acc, cur))
    ELSE IF s[i] = LF THEN ReadLinesFrom(s, i + 1, <<>>, Append(acc, Append(cur, LF)))
    ELSE IF s[i] = CR THEN
        ReadLinesFrom(s, IF i < Len(s) /\ s[i + 1] = LF THEN i + 2 ELSE i + 1,
                      <<>>, Append(acc, Append(cur, LF)))
    ELSE ReadLinesFrom(s, i + 1, Append(cur, s[i]), acc)

\* iterating open(path, 'r', encoding='utf-8'): universal newlines, each line
\* with its "\n"
ReadLines(bytes) == ReadLinesFrom(bytes, 1, <<>>, <<>>)

\* get_file's parse of the file on disk
ParseFile(bytes) ==
    IF ~ValidUtf8(bytes) THEN NoParse
    ELSE LET res == csv_reader(ReadLines(bytes))
         IN  IF res.ok THEN HeaderAndRows(res.rows) ELSE NoParse

\* the status of GET /file/{file_id}
get_file_status(id) ==
    LET got == db_get(id)
    IN  IF ~got.found THEN 404
        ELSE IF ~PathExists(got.pf.path) THEN 410
        ELSE IF ParseFile(disk[got.pf.path].bytes).ok THEN 200
        ELSE 500

\* a file view that drops the record of a file it finds missing on disk
GetFilePurging(id) ==
    /\ Sent
    /\ running = 0
    /\ resp' = [op |-> "file", id |-> id, status |-> get_file_status(id),
                body |-> <<>>]
    /\ committed' = IF get_file_status(id) = 410
                     THEN SelectSeq(committed, LAMBDA row : row.id # id)
                     ELSE committed
    /\ UNCHANGED <<pc, req, running, issued, disk, pending, s3, env, faults,
                   extDeleted>>

\* a file view that shows the headers kept in the catalog instead of parsing
\* the file
GetFileFromCatalog(id) ==
    /\ Sent
    /\ running = 0
    /\ LET got == db_get(id)
           status == get_file_status(id)
       IN  resp' = [op |-> "file", id |-> id, status |-> status,
                    body |-> IF status = 200
                             THEN <<got.pf.original_name,
                                    [ok |-> TRUE, headers |-> got.pf.headers,
                                     data_rows |-> <<>>]>>
                             ELSE <<>>]
    /\ UNCHANGED <<pc, req, running, issued, disk, committed, pending, s3, env,
                   faults, extDeleted>>

\* GET /file/{file_id}
GetFile(id) ==
    /\ Sent
    /\ running = 0
    /\ LET got == db_get(id)
           status == get_file_status(id)
       IN  resp' = [op |-> "file", id |-> id, status |-> status,
                    body |-> IF status = 200
                             THEN <<got.pf.original_name,
                                    ParseFile(disk[got.pf.path].bytes)>>
                             ELSE <<>>]
    /\ UNCHANGED <<pc, req, running, issued, disk, committed, pending, s3, env,
                   faults, extDeleted>>

\* a download that does not look for the file on disk
download_status_unchecked(id) == IF db_get(id).found THEN 200 ELSE 404

\* the status of GET /download/{file_id}
download_status(id) ==
    LET got == db_get(id)
    IN  IF ~got.found THEN 404
        ELSE IF ~PathExists(got.pf.path) THEN 410
        ELSE 200

\* GET /download/{file_id}
DownloadFile(id) ==
    /\ Sent
    /\ running = 0
    /\ LET got == db_get(id)
           status == download_status(id)
       IN  resp' = [op |-> "download", id |-> id, status |-> status,
                    body |-> IF status = 200
                             THEN <<got.pf.original_name, disk[got.pf.path].bytes>>
                             ELSE <<>>]
    /\ UNCHANGED <<pc, req, running, issued, disk, committed, pending, s3, env,
                   faults, extDeleted>>

\* ORDER BY uploaded_at DESC: no row sorts before a row with a greater
\* uploaded_at text
OrderedDesc(rows, p) ==
    \A i, j \in 1..Len(rows) :
        i < j => ~TextLess(rows[p[i]].uploaded_at, rows[p[j]].uploaded_at)

\* the orders in which SELECT ... ORDER BY uploaded_at DESC can return the
\* rows: SQLite leaves the order of rows with equal sort keys undefined
SelectOrders(rows) ==
    {p \in [1..Len(rows) -> 1..Len(rows)] :
        /\ \A i, j \in 1..Len(rows) : p[i] = p[j] => i = j
        /\ OrderedDesc(rows, p)}

\* db_list(): the ProcessedFile of every row, in the order of the SELECT
db_list(p) == [i \in 1..Len(Visible) |-> FileOf(Visible[p[i]])]

\* GET /files (and the index page)
ListFiles ==
    /\ Sent
    /\ running = 0
    /\ \E p \in SelectOrders(Visible) :
          resp' = [op |-> "list", id |-> NoId, status |-> 200, body |-> db_list(p)]
    /\ UNCHANGED <<pc, req, running, issued, disk, committed, pending, s3, env,
                   faults, extDeleted>>

\* the response of the read handler is sent to the client
Respond ==
    /\ ~Sent
    /\ resp' = NoResp
    /\ UNCHANGED <<pc, req, running, issued, disk, committed, pending, s3, env,
                   faults, extDeleted>>

\* ------------------------------------------------------------ environment
\* somebody outside the application deletes a blob file
ExternalDelete(path) ==
    /\ Sent
    /\ CanFault
    /\ disk[path].exists
    /\ faults' = faults + 1
    /\ disk' = [disk EXCEPT ![path] = NoFile]
    /\ extDeleted' = extDeleted \cup {path}
    /\ UNCHANGED <<pc, req, running, issued, committed, pending, s3, env, resp>>

\* somebody outside the application replaces the bytes of a blob file
ExternalModify(path) ==
    /\ Sent
    /\ CanFault
    /\ disk[path].exists
    /\ faults' = faults + 1
    /\ \E bytes \in Uploads :
          /\ bytes # disk[path].bytes
          /\ disk' = [disk EXCEPT ![path] = FileWith(bytes)]
    /\ UNCHANGED <<pc, req, running, issued, committed, pending, s3, env,
                   extDeleted, resp>>

InFlight(r) == pc[r] \notin {"idle", "complete", "failed", "crashed"}

\* the process dies and is started again: the requests in flight are lost
\* with the open transaction; the module is loaded again and runs its startup
\* steps on the database file and the storage directory it finds
Crash ==
    /\ Sent
    /\ CanFault
    /\ \E r \in Reqs : InFlight(r)
    /\ faults' = faults + 1
    /\ pc' = [r \in Reqs |-> IF InFlight(r) THEN "crashed" ELSE pc[r]]
    /\ running' = 0
    /\ pending' = <<>>
    /\ disk' = StartupStorage(TRUE, disk)
    /\ committed' = StartupSchema(StoreWith(committed)).rows
    /\ UNCHANGED <<req, issued, s3, env, extDeleted, resp>>

Next ==
    \/ \E r \in Reqs : Receive(r)
    \/ \E r \in Reqs : GenId(r)
    \/ \E r \in Reqs : WriteBlob(r)
    \/ \E r \in Reqs : Parse(r)
    \/ \E r \in Reqs : Build(r)
    \/ \E r \in Reqs : DbAdd(r)
    \/ \E r \in Reqs : Backup(r)
    \/ \E r \in Reqs : Finish(r)
    \/ \E id \in QueryIds : GetFile(id)
    \/ \E id \in QueryIds : DownloadFile(id)
    \/ ListFiles
    \/ Respond
    \/ \E path \in Paths : ExternalDelete(path)
    \/ Crash

Spec == Init /\ [][Next]_vars

\* ----------------------------------------------------------------- claims
\* the rows a read can see that carry identifier id
RowsOf(id) == {k \in 1..Len(Visible) : Visible[k].id = id}

Catalogued(id) == RowsOf(id) # {}

\* the request that was given identifier id
Owner(id) == {r \in Reqs : req[r].file_id = id}

\* C1: every record in the catalog belongs to a request whose blob write
\* completed before the insert; unless the blob was deleted externally it is
\* on disk with the uploaded bytes and the download of the id succeeds.
C1_BlobBeforeRecord ==
    \A k \in 1..Len(Visible) :
        LET row == Visible[k]
        IN  /\ \E r \in Owner(row.id) : req[r].wrote
            /\ row.path \notin extDeleted =>
                  /\ disk[row.path].exists
                  /\ \E r \in Owner(row.id) : disk[row.path].bytes = req[r].contents
                  /\ download_status(row.id) = 200

\* a catalogued record next to a request that died in a crash after its blob
\* write and before its insert
C1_Witness ==
    /\ Len(committed) >= 1
    /\ \E r \in Reqs :
          pc[r] = "crashed" /\ req[r].wrote /\ ~Catalogued(req[r].file_id)

\* C2: a request whose parse step failed leaves no blob file, no catalog
\* record and no backup attempt behind.
C2_ParseFailurePersistsNothing ==
    \A r \in Reqs :
        (pc[r] = "failed" /\ req[r].failedAt = "parse") =>
            /\ ~disk[LocalPath(req[r].file_id)].exists
            /\ ~Catalogued(req[r].file_id)
            /\ req[r].s3calls = 0

\* the steps of the upload handler of request r after its record is inserted
AfterInsert(r) == Backup(r) \/ Finish(r)

\* the process keeps running: every step but the crash
NextAlive ==
    \/ \E r \in Reqs : Receive(r)
    \/ \E r \in Reqs : GenId(r)
    \/ \E r \in Reqs : WriteBlob(r)
    \/ \E r \in Reqs : Parse(r)
    \/ \E r \in Reqs : Build(r)
    \/ \E r \in Reqs : DbAdd(r)
    \/ \E r \in Reqs : Backup(r)
    \/ \E r \in Reqs : Finish(r)
    \/ \E id \in QueryIds : GetFile(id)
    \/ \E id \in QueryIds : DownloadFile(id)
    \/ ListFiles
    \/ Respond
    \/ \E path \in Paths : ExternalDelete(path)

\* a handler that was resumed on the event loop runs on to its end: the
\* steps after the insert are taken as long as the process lives
LiveSpec ==
    Init /\ [][NextAlive]_vars /\ \A r \in Reqs : WF_vars(AfterInsert(r))

\* the steps of the process when uuid4 is not assumed to be collision free
NextCollide ==
    \/ \E r \in Reqs : Receive(r)
    \/ \E r \in Reqs : GenIdAny(r)
    \/ \E r \in Reqs : WriteBlob(r)
    \/ \E r \in Reqs : Parse(r)
    \/ \E r \in Reqs : Build(r)
    \/ \E r \in Reqs : DbAdd(r)
    \/ \E r \in Reqs : Backup(r)
    \/ \E r \in Reqs : Finish(r)
    \/ \E id \in QueryIds : GetFile(id)
    \/ \E id \in QueryIds : DownloadFile(id)
    \/ ListFiles
    \/ Respond

CollideSpec == Init /\ [][NextCollide]_vars

\* C3: once the record of an upload is inserted (db_add returned), the request
\* reaches COMPLETE whatever the backup does, never fails, and the backup step
\* leaves the catalog and the local blobs as they are.
C3_BackupNeverFailsRequest ==
    /\ \A r \in Reqs : (pc[r] = "cataloged") ~> (pc[r] = "complete")
    /\ [][\A r \in Reqs :
            /\ pc[r] \in {"cataloged", "backed"} =>
                  pc'[r] \in {"cataloged", "backed", "complete"}
            /\ (pc[r] = "cataloged" /\ pc'[r] # "cataloged") =>
                  /\ committed' = committed
                  /\ pending' = pending
                  /\ disk' = disk]_vars

\* a request that completed although its one upload attempt failed
C3_Witness ==
    \E r \in Reqs : pc[r] = "complete" /\ req[r].s3calls = 1 /\ ~req[r].s3ret

\* C4: after a successful upload, db_get of its id returns the row count, the
\* headers and the original name derived at ingest.
C4_GetReturnsIngestValues ==
    \A r \in Reqs :
        pc[r] = "complete" =>
            LET got == db_get(req[r].file_id)
            IN  /\ got.found
                /\ got.pf.rows = Len(req[r].parsed.data_rows)
                /\ got.pf.headers = req[r].parsed.headers
                /\ got.pf.original_name = req[r].filename

\* C5: no record of a request that returned an error is returned by a later
\* get or list, nor is one stored in the database file.
C5_FailedRequestNotExposed ==
    \A r \in Reqs :
        pc[r] = "failed" =>
            /\ ~db_get(req[r].file_id).found
            /\ \A k \in 1..Len(committed) : committed[k].id # req[r].file_id
            /\ resp.op = "list" =>
                  \A i \in 1..Len(resp.body) : resp.body[i].id # req[r].file_id

\* C6: the file view and the download answer 404 exactly for the ids absent
\* from the catalog and 410 for the catalogued ids whose blob is gone from the
\* disk, and never end in an error.
C6_NotFoundVersusGone ==
    resp.op \in {"file", "download"} =>
        /\ ~Catalogued(resp.id) => resp.status = 404
        /\ (Catalogued(resp.id) /\ LocalPath(resp.id) \in extDeleted) => resp.status = 410
        /\ resp.status = 410 => (Catalogued(resp.id) /\ ~disk[LocalPath(resp.id)].exists)
        /\ resp.status = 404 => ~Catalogued(resp.id)
        /\ resp.status \in {200, 404, 410}

\* a read of a catalogued id whose blob was deleted externally
C6_Witness ==
    /\ resp.op \in {"file", "download"}
    /\ resp.status = 410
    /\ LocalPath(resp.id) \in extDeleted

\* chronological order of two datetimes
TimeLess(a, b) == a.day < b.day \/ (a.day = b.day /\ a.us < b.us)

\* the position in the table (insertion order) of the row with identifier id
RowIndex(id) == CHOOSE k \in 1..Len(Visible) : Visible[k].id = id

\* C7: the listing returns every catalogued record exactly once, uploaded_at
\* never increases along it, and records with equal uploaded_at appear in
\* insertion order (stated for the runs without any fault).
C7_ListNewestFirstStable ==
    (resp.op = "list" /\ faults = 0) =>
        LET out == resp.body
        IN  /\ Len(out) = Len(Visible)
            /\ \A k \in 1..Len(Visible) :
                  Cardinality({i \in 1..Len(out) : out[i] = FileOf(Visible[k])}) = 1
            /\ \A i, j \in 1..Len(out) :
                  i < j => ~TimeLess(out[i].uploaded_at, out[j].uploaded_at)
            /\ \A i, j \in 1..Len(out) :
                  (i < j /\ out[i].uploaded_at = out[j].uploaded_at) =>
                      RowIndex(out[i].id) < RowIndex(out[j].id)

\* the part of C7 without the order of ties
C7_ListNewestFirst ==
    resp.op = "list" =>
        LET out == resp.body
        IN  /\ Len(out) = Len(Visible)
            /\ \A k \in 1..Len(Visible) :
                  Cardinality({i \in 1..Len(out) : out[i] = FileOf(Visible[k])}) = 1
            /\ \A i, j \in 1..Len(out) :
                  i < j => ~TimeLess(out[i].uploaded_at, out[j].uploaded_at)

\* C8: the blob of a successfully uploaded file holds the uploaded bytes, and
\* its download returns them, in every later state, unless the file was
\* deleted externally.
C8_DownloadReturnsUploadedBytes ==
    \A r \in Reqs :
        (pc[r] = "complete" /\ LocalPath(req[r].file_id) \notin extDeleted) =>
            /\ disk[LocalPath(req[r].file_id)] = FileWith(req[r].contents)
            /\ download_status(req[r].file_id) = 200
            /\ (resp.op = "download" /\ resp.id = req[r].file_id) =>
                  resp.body = <<req[r].filename, req[r].contents>>

\* a download of a completed upload after another upload has run
C8_Witness ==
    /\ resp.op = "download"
    /\ resp.status = 200
    /\ \E r, q \in Reqs :
          /\ r # q
          /\ pc[r] = "complete"
          /\ resp.id = req[r].file_id
          /\ pc[q] \in {"complete", "failed"}
          /\ req[q].file_id > req[r].file_id

\* C9: the identifiers and the storage paths of the requests are pairwise
\* distinct, and when all the requests have succeeded the catalog holds
\* exactly one record per request, with the values and the blob of that request.
C9_ConcurrentUploadsKeepApart ==
    /\ \A r, q \in Reqs :
          (r # q /\ req[r].file_id # NoId /\ req[q].file_id # NoId) =>
              /\ req[r].file_id # req[q].file_id
              /\ LocalPath(req[r].file_id) # LocalPath(req[q].file_id)
    /\ (\A r \in Reqs : pc[r] = "complete") =>
          /\ Len(committed) = Cardinality(Reqs)
          /\ pending = <<>>
          /\ \A r \in Reqs :
                /\ Cardinality({k \in 1..Len(committed) :
                                   committed[k] = RowOf(ProcessedFile(r))}) = 1
                /\ LocalPath(req[r].file_id) \notin extDeleted =>
                      disk[LocalPath(req[r].file_id)] = FileWith(req[r].contents)

\* all the requests succeeded, and not in the order in which they arrived
C9_Witness ==
    /\ \A r \in Reqs : pc[r] = "complete"
    /\ \E r, q \in Reqs : r < q /\ req[q].file_id < req[r].file_id

\* C10: a request whose catalog insert failed leaves its blob on disk, no
\* record of its id in the catalog and no backup attempt.
C10_InsertFailureLeavesOrphanOnly ==
    \A r \in Reqs :
        (pc[r] = "failed" /\ req[r].failedAt \in {"insert", "commit"}) =>
            /\ LocalPath(req[r].file_id) \notin extDeleted =>
                  disk[LocalPath(req[r].file_id)] = FileWith(req[r].contents)
            /\ ~Catalogued(req[r].file_id)
            /\ req[r].s3calls = 0

\* C11: an insert whose id is already in the catalog fails the request with
\* an error at the insert and leaves the catalog as it was, so the catalog
\* never holds two records with the same id.
C11_DuplicateInsertRejected ==
    /\ [](\A id \in Ids : Cardinality(RowsOf(id)) <= 1)
    /\ [][\A r \in Reqs :
            (pc[r] = "built" /\ pc'[r] # "built" /\ Catalogued(req[r].file_id)) =>
                /\ pc'[r] = "failed"
                /\ req'[r].failedAt = "insert"
                /\ committed' = committed
                /\ pending' = pending]_vars

\* a request rejected at the insert, without any fault, next to the completed
\* request that holds the record of the same id
C11_Witness ==
    /\ faults = 0
    /\ \E r, q \in Reqs :
          /\ r # q
          /\ pc[r] = "failed" /\ req[r].failedAt = "insert"
          /\ pc[q] = "complete" /\ req[q].file_id = req[r].file_id
          /\ Cardinality(RowsOf(req[r].file_id)) = 1
          /\ req[q].contents # req[r].contents

\* C20: the blob of a catalogued record keeps the bytes of the upload that
\* created the record, whatever later upload requests do, a request that is
\* given the same id and rejected at the insert included.
C20_FailedUploadKeepsOtherBlobs ==
    \A r \in Reqs :
        pc[r] \in {"cataloged", "backed", "complete"} =>
            disk[LocalPath(req[r].file_id)] = FileWith(req[r].contents)

\* C12: a request whose blob write failed leaves no catalog record, no backup
\* attempt and no file of its id on the disk.
C12_WriteFailurePersistsNothing ==
    \A r \in Reqs :
        (pc[r] = "failed" /\ req[r].failedAt = "write") =>
            /\ ~Catalogued(req[r].file_id)
            /\ req[r].s3calls = 0
            /\ ~disk[LocalPath(req[r].file_id)].exists

\* C13: an upload request calls s3_client.upload_file not at all when the
\* client, the access key or the secret is missing, and once otherwise;
\* upload_to_s3 returns True exactly when that one call stored the object,
\* False otherwise, and never fails the request.
C13_AtMostOneBackupAttempt ==
    \A r \in Reqs :
        /\ req[r].s3calls \in {0, 1}
        /\ req[r].failedAt # "backup"
        /\ pc[r] \notin {"backed", "complete", "crashed"} =>
              (req[r].s3calls = 0 /\ ~req[r].s3ret)
        /\ pc[r] \in {"backed", "complete"} =>
              /\ (~env.client \/ ~env.key \/ ~env.secret) =>
                    (req[r].s3calls = 0 /\ ~req[r].s3ret)
              /\ (env.client /\ env.key /\ env.secret) => req[r].s3calls = 1
        /\ req[r].s3ret <=>
              /\ req[r].s3calls = 1
              /\ \E o \in s3 : o.key = req[r].s3key

\* two requests that each made their one attempt: one stored its object, the
\* other failed and was not tried again
C13_Witness ==
    \E r, q \in Reqs :
        /\ pc[r] = "complete" /\ req[r].s3calls = 1 /\ req[r].s3ret
        /\ pc[q] = "complete" /\ req[q].s3calls = 1 /\ ~req[q].s3ret
        /\ Cardinality(s3) = 1

\* a step in which the process crashes and restarts
CrashStep == \E r \in Reqs : pc[r] # "crashed" /\ pc'[r] = "crashed"

\* C14: the startup on an empty store gives an empty catalog; the record of
\* every request whose db_add returned is in the database file and is what
\* db_get returns; no step, a crash with restart included, changes or drops a
\* committed row, and a crash with restart leaves every row and blob in place.
C14_CatalogSurvivesRestart ==
    /\ committed = <<>>
    /\ [](\A r \in Reqs :
            pc[r] \in {"cataloged", "backed", "complete"} =>
                /\ \E k \in 1..Len(committed) : committed[k] = RowOf(ProcessedFile(r))
                /\ db_get(req[r].file_id) =
                      [found |-> TRUE, pf |-> FileOf(RowOf(ProcessedFile(r)))])
    /\ [](resp.op = "list" =>
            \A k \in 1..Len(committed) :
                \E i \in 1..Len(resp.body) : resp.body[i] = FileOf(committed[k]))
    /\ [][/\ \A k \in 1..Len(committed) :
                /\ k <= Len(committed')
                /\ committed'[k] = committed[k]
                /\ db_get(committed[k].id)' = db_get(committed[k].id)
           /\ CrashStep => (committed' = committed /\ disk' = disk)]_vars

\* a listing after a restart returns the record of a request that the crash
\* hit after its db_add had returned
C14_Witness ==
    /\ resp.op = "list"
    /\ \E r \in Reqs :
          /\ pc[r] = "crashed"
          /\ \E k \in 1..Len(committed) : committed[k].id = req[r].file_id
          /\ \E i \in 1..Len(resp.body) : resp.body[i].id = req[r].file_id

\* C15: a completed upload has exactly one record in the database file, the
\* one its db_add bound; no step changes or removes a committed row, and rows
\* are added only by the db_add step of an upload request.
C15_RecordsOnlyAdded ==
    /\ [](\A r \in Reqs :
            pc[r] = "complete" =>
                /\ Cardinality({k \in 1..Len(committed) :
                                   committed[k].id = req[r].file_id}) = 1
                /\ \E k \in 1..Len(committed) : committed[k] = RowOf(ProcessedFile(r)))
    /\ [][/\ Len(committed') >= Len(committed)
           /\ SubSeq(committed', 1, Len(committed)) = committed
           /\ Len(committed') > Len(committed) =>
                 \E r \in Reqs :
                     /\ pc[r] = "built" /\ pc'[r] = "cataloged"
                     /\ committed'[Len(committed')] = RowOf(ProcessedFile(r))]_vars

\* a file view answered with two records in the catalog, after both uploads
\* ran their backup step
C15_Witness ==
    /\ Len(committed) = 2
    /\ resp.op = "file" /\ resp.status = 200
    /\ \A r \in Reqs : pc[r] = "complete" /\ req[r].s3calls = 1

\* a step in which a read handler (list, file view, download) answers
ReadStep == resp.op = "none" /\ resp'.op \in {"list", "file", "download"}

\* C16: a read, whatever its status, leaves the catalog, the open transaction,
\* the blobs and the bucket as they are and calls the remote store for no
\* request.
C16_ReadsChangeNothing ==
    [][ReadStep =>
          /\ committed' = committed
          /\ pending' = pending
          /\ disk' = disk
          /\ s3' = s3
          /\ \A r \in Reqs : req'[r].s3calls = req[r].s3calls]_vars

\* a download answered with 404 while the catalog and the bucket hold another
\* file
C16_Witness ==
    /\ resp.op = "download" /\ resp.status = 404
    /\ Len(committed) >= 1
    /\ s3 # {}

\* C17: for every upload that attempted a backup, the date partition of the
\* remote key is the calendar date of the uploaded_at of its record and the
\* key carries the file id, so that no two uploads share a key (stated for a
\* clock that does not run backwards between the steps of the request).
C17_KeyDateIsRecordDate ==
    \A r \in Reqs :
        (req[r].s3calls = 1 /\ req[r].s3key[1] >= DatePrefix(req[r].uploaded_at)) =>
            /\ req[r].s3key[1] = DatePrefix(req[r].uploaded_at)
            /\ req[r].s3key[2] = req[r].file_id
            /\ \A q \in Reqs :
                  (q # r /\ req[q].s3calls = 1) => req[q].s3key # req[r].s3key

\* the part of C17 that does not depend on the clock
C17_KeyCarriesId ==
    \A r \in Reqs :
        req[r].s3calls = 1 =>
            /\ req[r].s3key[2] = req[r].file_id
            /\ \A q \in Reqs :
                  (q # r /\ req[q].s3calls = 1) => req[q].s3key # req[r].s3key

\* the steps of a process that keeps running while blob files are edited
\* from outside
NextDrift ==
    \/ NextAlive
    \/ \E path \in Paths : ExternalModify(path)

DriftSpec == Init /\ [][NextDrift]_vars

\* C18: whatever happens to the bytes of its blob after ingest, db_get and the
\* listing return for a completed upload the row count and the headers stored
\* at ingest, and a file view answered with 200 shows the header and the rows
\* parsed from the bytes that are on disk at that time.
C18_CatalogKeepsIngestValues ==
    \A r \in Reqs :
        pc[r] = "complete" =>
            LET id == req[r].file_id
                got == db_get(id)
                now == disk[LocalPath(id)].bytes
            IN  /\ got.found
                /\ got.pf.rows = Len(req[r].parsed.data_rows)
                /\ got.pf.headers = SplitHeaders(JoinHeaders(req[r].parsed.headers))
                /\ resp.op = "list" =>
                      \E i \in 1..Len(resp.body) :
                          /\ resp.body[i].id = id
                          /\ resp.body[i].rows = Len(req[r].parsed.data_rows)
                          /\ resp.body[i].headers =
                                SplitHeaders(JoinHeaders(req[r].parsed.headers))
                /\ (resp.op = "file" /\ resp.id = id /\ resp.status = 200) =>
                      resp.body[2] = HeaderAndRows(csv_reader(ReadLines(now)).rows)

\* a file view of a blob that was edited after ingest: it shows other headers
\* and another number of rows than the catalog holds
C18_Witness ==
    \E r \in Reqs :
        /\ pc[r] = "complete"
        /\ resp.op = "file" /\ resp.id = req[r].file_id /\ resp.status = 200
        /\ disk[LocalPath(req[r].file_id)].bytes # req[r].contents
        /\ resp.body[2].headers # db_get(req[r].file_id).pf.headers
        /\ Len(resp.body[2].data_rows) # db_get(req[r].file_id).pf.rows

\* one upload request of an arbitrary byte string, up to its ProcessedFile
NextParser ==
    \/ ReceiveBytes(1)
    \/ \E r \in Reqs : GenId(r)
    \/ \E r \in Reqs : WriteBlob(r)
    \/ \E r \in Reqs : Parse(r)
    \/ \E r \in Reqs : Build(r)

ParserSpec == Init /\ [][NextParser]_vars

\* the rows csv.reader returns for the bytes of request r
ParsedRows(r) == csv_reader(splitlines(req[r].contents)).rows

\* C19 (as stated): for every input the recorded row count is the number of
\* parsed rows minus one, and is not negative.
C19_RowCountIsRowsMinusOne ==
    \A r \in Reqs :
        pc[r] = "built" =>
            /\ ProcessedFile(r).rows = Len(ParsedRows(r)) - 1
            /\ ProcessedFile(r).rows >= 0

\* C19 (amended): the first parsed row, if any, is the headers and the later
\* rows are the data rows, kept as parsed whatever their field count; the
\* recorded row count is the number of parsed rows minus one when there is a
\* parsed row and 0 when there is none, in which case the headers are empty.
C19_HeaderThenDataRows ==
    \A r \in Reqs :
        pc[r] = "built" =>
            LET rows == ParsedRows(r)
                pf == ProcessedFile(r)
            IN  /\ pf.rows >= 0
                /\ rows = <<>> => (pf.headers = <<>> /\ pf.rows = 0)
                /\ rows # <<>> =>
                      /\ pf.headers = rows[1]
                      /\ pf.rows = Len(rows) - 1
                      /\ \A k \in 1..pf.rows : req[r].parsed.data_rows[k] = rows[k + 1]
                /\ req[r].contents = <<>> => rows = <<>>

\* an input with a header and a data row of another field count
C19_Witness ==
    \E r \in Reqs :
        /\ pc[r] = "built"
        /\ ProcessedFile(r).rows = 1
        /\ Len(req[r].parsed.data_rows[1]) # Len(ProcessedFile(r).headers)

====
